---- MODULE Spec2Model ----
(***************************************************************************)
(* State-machine model of modules/sfp_alienvault.py: the SpiderFoot plugin *)
(* that looks identifiers up in AlienVault OTX.  One run of the plugin is   *)
(* setup() followed by a sequence of handleEvent() calls.  handleEvent is   *)
(* modelled in steps, one per transport call it makes: HandleEvent (entry   *)
(* checks, dedup, netblock expansion), PassiveDns (the extra lookup for     *)
(* IP_ADDRESS events) and LoopStep (one iteration of "for addr in qrylist").*)
(* The transport (sf.fetchUrl) and sf.checkForStop are the environment:     *)
(* their answers are drawn from bounded sets.                               *)
(***************************************************************************)
EXTENDS Integers, Sequences, FiniteSets, TLC

(* ------------------------------ bounds -------------------------------- *)
\* events delivered in one run
MaxEvents == 2
\* the highest address an event names (addresses are 0 .. MaxAddr)
MaxAddr == 1
\* entries in the "activities" list of a reputation record
MaxActs == 1

(* ------------------------- program constants -------------------------- *)
DefaultAgeLimitDays == 30
DefaultThreatScoreMin == 2
SecondsPerDay == 86400

\* int(time.time()): the wall clock, taken as fixed during a run
Now == 10000000

(* ---------------------------- identifiers ----------------------------- *)
\* An identifier string (event.data, a query target, a key of self.results).
\*   "ip4"  a dotted IPv4 address a            (p unused, 0)
\*   "net"  the CIDR string "a/(32-p)": base address a, p host bits
\*   "ip6"  an IPv6 address (contains ":")
\*   "host" a hostname
Ip(a) == [k |-> "ip4", a |-> a, p |-> 0]
Net(a, p) == [k |-> "net", a |-> a, p |-> p]
Ip6(a) == [k |-> "ip6", a |-> a, p |-> 0]
Host(h) == [k |-> "host", a |-> h, p |-> 0]

RECURSIVE Pow2(_)
Pow2(n) == IF n = 0 THEN 1 ELSE 2 * Pow2(n - 1)

Addrs == 0 .. MaxAddr
HostNames == {1, 2}

\* the block counted from the address as spelt, not from its network address
IPNetworkFromBase(net) == [i \in 1 .. Pow2(net.p) |-> Ip(net.a + i - 1)]

\* netaddr.IPNetwork(eventData) iterated: every address of the block, from
\* the network address to the broadcast address, ascending; str(ipaddr) of
\* each is the plain dotted address.
IPNetwork(net) ==
    LET size == Pow2(net.p)
        first == net.a - (net.a % size)
    IN  [i \in 1 .. size |-> Ip(first + i - 1)]

Range(s) == {s[i] : i \in 1 .. Len(s)}

(* ------------------------------ events -------------------------------- *)
watchedEvents ==
    {"IP_ADDRESS", "AFFILIATE_IPADDR", "INTERNET_NAME", "CO_HOSTED_SITE",
     "NETBLOCK_OWNER", "NETBLOCK_MEMBER", "AFFILIATE_INTERNET_NAME",
     "IPV6_ADDRESS"}

producedEvents ==
    {"MALICIOUS_IPADDR", "MALICIOUS_INTERNET_NAME", "MALICIOUS_COHOST",
     "MALICIOUS_AFFILIATE_INTERNET_NAME", "MALICIOUS_AFFILIATE_IPADDR",
     "MALICIOUS_NETBLOCK", "CO_HOSTED_SITE"}

\* eventName.startswith("NETBLOCK_")
IsNetblock(eventName) == eventName \in {"NETBLOCK_OWNER", "NETBLOCK_MEMBER"}

\* The netblocks of the events: blocks of one address ("a/32") and of two
\* ("a/31"), each under every spelling of its base address ("0/31" and
\* "1/31" are one block).
NetBlocks == {Net(a, p) : a \in Addrs, p \in {0, 1}}

\* The events the pipeline delivers: each watched type with data of its kind.
Events ==
    [eventType : {"IP_ADDRESS"}, data : {Ip(a) : a \in Addrs}]
    \cup [eventType : {"AFFILIATE_IPADDR"}, data : {Ip(0)}]
    \cup [eventType : {"NETBLOCK_OWNER"}, data : NetBlocks]
    \cup [eventType : {"NETBLOCK_MEMBER"}, data : {Net(1, 1)}]
    \cup [eventType : {"INTERNET_NAME", "AFFILIATE_INTERNET_NAME", "CO_HOSTED_SITE"},
          data : {Host(1)}]
    \cup [eventType : {"IPV6_ADDRESS"}, data : {Ip6(1)}]

NoEvent == [eventType |-> "NONE", data |-> Host(0)]

(* ------------------------- transport responses ------------------------ *)
\* A timestamp string of a record: seconds since the epoch when it parses
\* with strptime, Malformed when it does not (or the key is missing, which
\* .get(..., "") turns into "").
Malformed == -1
OldTs == Now - (SecondsPerDay * DefaultAgeLimitDays) - 1
RecentTs == Now - SecondsPerDay
Stamps == {OldTs, RecentTs, Malformed}

\* activities: entry i carries the name i, so the names of one record differ
ActLists ==
    UNION {[1 .. n -> [name : {0}, last_date : Stamps]] : n \in 0 .. MaxActs}
Named(acts) == [i \in 1 .. Len(acts) |-> [name |-> i, last_date |-> acts[i].last_date]]
Activities == {Named(acts) : acts \in ActLists}

\* passive_dns: an entry with a "hostname" key and its "last" stamp, or one
\* without the key; the lists cover each branch of lines 146-158.
PdnsEntry(h, last) == [has_hostname |-> TRUE, hostname |-> h, last |-> last]
NoHostEntry == [has_hostname |-> FALSE, hostname |-> 0, last |-> RecentTs]
PdnsLists ==
    {<<>>, <<PdnsEntry(2, RecentTs)>>, <<PdnsEntry(2, OldTs)>>,
     <<PdnsEntry(2, Malformed)>>, <<NoHostEntry>>,
     <<PdnsEntry(1, OldTs), PdnsEntry(2, RecentTs)>>}

Scores == {DefaultThreatScoreMin - 1, DefaultThreatScoreMin}

\* A parsed JSON object.  has_rep: the key "reputation" is present with a
\* non-empty value; has_passve: the key "passve_dns" is present; has_pdns:
\* the key "passive_dns" is present.
Body(hr, sc, acts, hv, hp, pd) ==
    [has_rep |-> hr, threat_score |-> sc, activities |-> acts,
     has_passve |-> hv, has_pdns |-> hp, passive_dns |-> pd]

EmptyObj == Body(FALSE, 0, <<>>, FALSE, FALSE, <<>>)
RepBodies == {Body(TRUE, sc, acts, FALSE, FALSE, <<>>) : sc \in Scores, acts \in Activities}
PdnsBodies == {Body(FALSE, 0, <<>>, FALSE, TRUE, pd) : pd \in PdnsLists}
\* objects that carry the misspelt key, with and without "passive_dns"
PassveBodies ==
    {Body(FALSE, 0, <<>>, TRUE, TRUE, pd) : pd \in PdnsLists}
    \cup {Body(FALSE, 0, <<>>, TRUE, FALSE, <<>>)}
JsonBodies == {EmptyObj} \cup RepBodies \cup PdnsBodies \cup PassveBodies

SomeRep == Body(TRUE, DefaultThreatScoreMin, <<[name |-> 1, last_date |-> RecentTs]>>,
                FALSE, FALSE, <<>>)

\* res of sf.fetchUrl: code, and content as "none" (None), "garbage" (text
\* json.loads rejects) or "json" with the object in body.
Res(code, content, body) == [code |-> code, content |-> content, body |-> body]
Responses ==
    {Res("200", "json", b) : b \in JsonBodies}
    \cup {Res("200", "none", EmptyObj), Res("200", "garbage", EmptyObj),
          Res("404", "json", SomeRep), Res("404", "none", EmptyObj),
          Res("403", "none", EmptyObj), Res("403", "json", SomeRep)}
NoRes == Res("000", "none", EmptyObj)

(* ------------------------------- state -------------------------------- *)
VARIABLES
    opts,        \* self.opts: apikey, age_limit_days, threat_score_min
    results,     \* self.results: the keys of the dict (the Dedup Cache)
    errorState,  \* self.errorState
    pc,          \* position of handleEvent: "idle", "pdns", "loop"
    event,       \* the event being handled (the last one, when idle)
    qrylist,     \* qrylist
    idx,         \* position of "for addr in qrylist"
    evtType,     \* local evtType, "UNBOUND" before its first assignment
    calls,       \* transport requests issued for the current event
    emitted,     \* events passed to notifyListeners for the current event
    lastRes,     \* the response to the latest transport request
    lastOut,     \* the findings emitted while handling that response
    raised,      \* handleEvent left by an exception
    stopped,     \* handleEvent left because checkForStop() was true
    outcome,     \* how HandleEvent's entry checks went for the current event
    nEvents,     \* events delivered so far
    repCalls,    \* identifier -> reputation requests issued for it in the run
    authFailed   \* some response of the run had code 403

vars == <<opts, results, errorState, pc, event, qrylist, idx, evtType, calls,
          emitted, lastRes, lastOut, raised, stopped, outcome, nEvents,
          repCalls, authFailed>>

Identifiers ==
    {Ip(a) : a \in 0 .. MaxAddr + 1} \cup NetBlocks
    \cup {Host(h) : h \in HostNames} \cup {Ip6(1)}

\* setup(): results cleared, the user's options copied over the defaults.
\* errorState is the class attribute, False.
Init ==
    /\ opts \in [apikey : {"", "key"},
                 age_limit_days : {0, DefaultAgeLimitDays},
                 threat_score_min : {DefaultThreatScoreMin}]
    /\ results = {}
    /\ errorState = FALSE
    /\ pc = "idle"
    /\ event = NoEvent
    /\ qrylist = <<>>
    /\ idx = 0
    /\ evtType = "UNBOUND"
    /\ calls = <<>>
    /\ emitted = <<>>
    /\ lastRes = NoRes
    /\ lastOut = <<>>
    /\ raised = FALSE
    /\ stopped = FALSE
    /\ outcome = "none"
    /\ nEvents = 0
    /\ repCalls = [id \in Identifiers |-> 0]
    /\ authFailed = FALSE


(* ------------------------------ query() ------------------------------- *)
\* sf.validIP(qry): qry is a dotted IPv4 literal
validIP(qry) == qry.k = "ip4"

\* ":" in qry
HasColon(qry) == qry.k = "ip6"

\* targettype of the request's URL
TargetType(qry) ==
    IF validIP(qry) THEN "IPv4"
    ELSE IF HasColon(qry) THEN "IPv6"
    ELSE "hostname"

\* the lookup kind that goes into the URL
QueryKind(querytype) ==
    IF querytype \notin {"passive_dns", "reputation"} THEN "reputation" ELSE querytype

\* the transport request query(qry, querytype) issues
Request(qry, querytype) ==
    [qry |-> qry, targettype |-> TargetType(qry), kind |-> QueryKind(querytype)]

\* a 404 taken for a rejected credential as well
AuthRejectedOr404(res) == res.code \in {"403", "404"}

\* res['code'] == "403": the credential was rejected
AuthRejected(res) == res.code = "403"

\* query() returns None
ReturnsNone(res) ==
    \/ AuthRejected(res)
    \/ res.content = "none" \/ res.code = "404"
    \/ res.content = "garbage"

\* what query() returns for response res: None, or the parsed object
QueryRet(res) ==
    IF ReturnsNone(res) THEN [none |-> TRUE, info |-> EmptyObj]
    ELSE [none |-> FALSE, info |-> res.body]

(* --------------------------- age filtering ---------------------------- *)
age_limit_ts == Now - (SecondsPerDay * opts.age_limit_days)

\* the record is older than the age limit (limit 0 = unlimited)
TooOld(ts) == opts.age_limit_days > 0 /\ ts < age_limit_ts

(* ------------------------ passive-DNS extraction ---------------------- *)
CoHost(type, host) == [evtType |-> type, score |-> 0, names |-> <<>>, host |-> host]

\* "for rec in res": the findings emitted for res[i..], acc being those
\* already emitted; strptime raising on a malformed "last" ends the scan
\* with the exception.
RECURSIVE PdnsScan(_, _, _, _)
PdnsScan(res, i, type, acc) ==
    IF i > Len(res) THEN [out |-> acc, exc |-> FALSE]
    ELSE IF ~res[i].has_hostname THEN PdnsScan(res, i + 1, type, acc)
    ELSE IF res[i].last = Malformed THEN [out |-> acc, exc |-> TRUE]
    ELSE IF TooOld(res[i].last) THEN PdnsScan(res, i + 1, type, acc)
    ELSE PdnsScan(res, i + 1, type, Append(acc, CoHost(type, res[i].hostname)))

\* lines 141-158 for the value ret that query() returned
PdnsOutcome(ret, type) ==
    IF ret.none THEN [out |-> <<>>, exc |-> FALSE]
    ELSE IF ~ret.info.has_passve THEN [out |-> <<>>, exc |-> FALSE]
    ELSE IF ~ret.info.has_pdns THEN [out |-> <<>>, exc |-> TRUE]
    ELSE PdnsScan(ret.info.passive_dns, 1, type, <<>>)

(* ---------------------- reputation classification --------------------- *)
\* the first test without its IP_ADDRESS arm
MaliciousTypeNoIp(eventName, before) ==
    IF IsNetblock(eventName) THEN "MALICIOUS_IPADDR"
    ELSE IF eventName = "AFFILIATE_IPADDR" THEN "MALICIOUS_AFFILIATE_IPADDR"
    ELSE IF eventName = "INTERNET_NAME" THEN "MALICIOUS_INTERNET_NAME"
    ELSE IF eventName = "AFFILIATE_INTERNET_NAME" THEN "MALICIOUS_AFFILIATE_INTERNET_NAME"
    ELSE IF eventName = "CO_HOSTED_SITE" THEN "MALICIOUS_COHOST"
    ELSE before

\* the evtType the loop body leaves for eventName, given its value before
MaliciousType(eventName, before) ==
    IF eventName = "IP_ADDRESS" \/ IsNetblock(eventName) THEN "MALICIOUS_IPADDR"
    ELSE IF eventName = "AFFILIATE_IPADDR" THEN "MALICIOUS_AFFILIATE_IPADDR"
    ELSE IF eventName = "INTERNET_NAME" THEN "MALICIOUS_INTERNET_NAME"
    ELSE IF eventName = "AFFILIATE_INTERNET_NAME" THEN "MALICIOUS_AFFILIATE_INTERNET_NAME"
    ELSE IF eventName = "CO_HOSTED_SITE" THEN "MALICIOUS_COHOST"
    ELSE before

\* the threshold off by one
BelowMinOffByOne(score) == score < opts.threat_score_min - 1

\* rec['reputation']['threat_score'] < self.opts['threat_score_min']
BelowMin(score) == score < opts.threat_score_min

\* the name appended only after the age test, and the test without its
\* "age_limit_days > 0" guard
RECURSIVE DescrScanFiltered(_, _, _)
DescrScanFiltered(history, i, acc) ==
    IF i > Len(history) THEN [names |-> acc, exc |-> FALSE]
    ELSE IF history[i].last_date = Malformed THEN [names |-> acc, exc |-> TRUE]
    ELSE IF history[i].last_date < age_limit_ts
         THEN DescrScanFiltered(history, i + 1, acc)
         ELSE DescrScanFiltered(history, i + 1, Append(acc, history[i].name))

\* "for result in rec_history": the names appended to descr for
\* history[i..], acc being those already appended.  The name is appended
\* before the entry's date is parsed and compared; the age test's
\* "continue" skips only the assignment of cats_description, which nothing
\* reads, so both of its branches go on to the next entry alike.
RECURSIVE DescrScan(_, _, _)
DescrScan(history, i, acc) ==
    IF i > Len(history) THEN [names |-> acc, exc |-> FALSE]
    ELSE LET acc2 == Append(acc, history[i].name)
         IN  IF history[i].last_date = Malformed THEN [names |-> acc2, exc |-> TRUE]
             ELSE IF TooOld(history[i].last_date)
                  THEN DescrScan(history, i + 1, acc2)
                  ELSE DescrScan(history, i + 1, acc2)

Finding(type, score, names) ==
    [evtType |-> type, score |-> score, names |-> names, host |-> 0]

\* lines 176-197 for the value rec that query() returned: the findings
\* emitted (none or one) and whether an exception left the handler.
\* Building the event with evtType unbound (IPV6_ADDRESS) raises.
Classify(rec, type) ==
    IF rec.none THEN [out |-> <<>>, exc |-> FALSE]
    ELSE IF ~rec.info.has_rep THEN [out |-> <<>>, exc |-> FALSE]
    ELSE IF BelowMin(rec.info.threat_score) THEN [out |-> <<>>, exc |-> FALSE]
    ELSE LET d == DescrScan(rec.info.activities, 1, <<>>)
         IN  IF d.exc \/ type = "UNBOUND" THEN [out |-> <<>>, exc |-> TRUE]
             ELSE [out |-> <<Finding(type, rec.info.threat_score, d.names)>>,
                   exc |-> FALSE]

(* ---------------------------- handleEvent ----------------------------- *)
\* the entry check left out
ErrorDropNever == FALSE

\* "if self.errorState: return None"
ErrorDrop == errorState

\* the credential check left out
NoApiKeyNever == FALSE

\* self.opts['apikey'] == ""
NoApiKey == opts.apikey = ""

\* the dedup check left out
AlreadyMappedNever(eventData) == FALSE

\* "if eventData in self.results"
AlreadyMapped(eventData) == eventData \in results

\* qrylist as lines 129-135 build it
QryList(ev) ==
    IF IsNetblock(ev.eventType) THEN IPNetwork(ev.data) ELSE <<ev.data>>

\* the cache rebuilt from the event alone, the earlier keys lost
MarkedForgets(ev) ==
    {ev.data} \cup (IF IsNetblock(ev.eventType) THEN Range(IPNetwork(ev.data)) ELSE {})

\* self.results after lines 127-135
Marked(ev) ==
    results \cup {ev.data}
    \cup (IF IsNetblock(ev.eventType) THEN Range(IPNetwork(ev.data)) ELSE {})

Count(req) == IF req.kind = "reputation" THEN [repCalls EXCEPT ![req.qry] = @ + 1]
              ELSE repCalls

\* handleEvent(event) up to its first transport request
HandleEvent(ev) ==
    /\ pc = "idle"
    /\ nEvents < MaxEvents
    /\ nEvents' = nEvents + 1
    /\ event' = ev
    /\ calls' = <<>>
    /\ emitted' = <<>>
    /\ lastRes' = NoRes
    /\ lastOut' = <<>>
    /\ raised' = FALSE
    /\ stopped' = FALSE
    /\ UNCHANGED <<opts, repCalls, authFailed>>
    /\ IF ErrorDrop THEN
           /\ outcome' = "error"
           /\ pc' = "idle" /\ qrylist' = <<>> /\ idx' = 0 /\ evtType' = "UNBOUND"
           /\ UNCHANGED <<results, errorState>>
       ELSE IF NoApiKey THEN
           /\ outcome' = "nokey"
           /\ errorState' = TRUE
           /\ pc' = "idle" /\ qrylist' = <<>> /\ idx' = 0 /\ evtType' = "UNBOUND"
           /\ UNCHANGED results
       ELSE IF AlreadyMapped(ev.data) THEN
           /\ outcome' = "mapped"
           /\ pc' = "idle" /\ qrylist' = <<>> /\ idx' = 0 /\ evtType' = "UNBOUND"
           /\ UNCHANGED <<results, errorState>>
       ELSE
           /\ outcome' = "accepted"
           /\ results' = Marked(ev)
           /\ qrylist' = QryList(ev)
           /\ idx' = 1
           /\ IF ev.eventType = "IP_ADDRESS"
              THEN pc' = "pdns" /\ evtType' = "CO_HOSTED_SITE"
              ELSE pc' = "loop" /\ evtType' = "UNBOUND"
           /\ UNCHANGED errorState

\* lines 138-158: the additional lookup for IP_ADDRESS, answered by res
PassiveDns(res) ==
    /\ pc = "pdns"
    /\ LET req == Request(event.data, "passve_dns")
           ret == QueryRet(res)
           o == PdnsOutcome(ret, evtType)
       IN  /\ calls' = Append(calls, req)
           /\ repCalls' = Count(req)
           /\ lastRes' = res
           /\ authFailed' = (authFailed \/ AuthRejected(res))
           /\ errorState' = (errorState \/ AuthRejected(res))
           /\ emitted' = emitted \o o.out
           /\ lastOut' = o.out
           /\ raised' = o.exc
           /\ pc' = IF o.exc THEN "idle" ELSE "loop"
    /\ UNCHANGED <<opts, results, event, qrylist, idx, evtType, stopped, outcome, nEvents>>

\* "continue" in place of "return None": the target is skipped, the loop
\* goes on
CancelledSkipsTarget ==
    /\ pc = "loop"
    /\ stopped' = TRUE
    /\ idx' = idx + 1
    /\ pc' = IF idx = Len(qrylist) THEN "idle" ELSE "loop"
    /\ UNCHANGED <<opts, results, errorState, event, qrylist, evtType, calls,
                   emitted, lastRes, lastOut, raised, outcome, nEvents, repCalls,
                   authFailed>>

\* "if self.checkForStop(): return None" at the head of an iteration, when
\* the scan has been asked to stop
Cancelled ==
    /\ pc = "loop"
    /\ stopped' = TRUE
    /\ pc' = "idle"
    /\ UNCHANGED <<opts, results, errorState, event, qrylist, idx, evtType, calls,
                   emitted, lastRes, lastOut, raised, outcome, nEvents, repCalls,
                   authFailed>>

\* one iteration of "for addr in qrylist" (lines 160-197) when checkForStop()
\* is false: the reputation request for qrylist[idx] is answered by res
LoopStep(res) ==
    /\ pc = "loop"
    /\ LET type == MaliciousType(event.eventType, evtType)
           req == Request(qrylist[idx], "reputation")
           rec == QueryRet(res)
           o == Classify(rec, type)
       IN  /\ evtType' = type
           /\ calls' = Append(calls, req)
           /\ repCalls' = Count(req)
           /\ lastRes' = res
           /\ authFailed' = (authFailed \/ AuthRejected(res))
           /\ errorState' = (errorState \/ AuthRejected(res))
           /\ emitted' = emitted \o o.out
           /\ lastOut' = o.out
           /\ raised' = o.exc
           /\ idx' = idx + 1
           /\ pc' = IF o.exc \/ idx = Len(qrylist) THEN "idle" ELSE "loop"
    /\ UNCHANGED <<opts, results, event, qrylist, stopped, outcome, nEvents>>

Next ==
    \/ \E ev \in Events : HandleEvent(ev)
    \/ \E res \in Responses : PassiveDns(res)
    \/ Cancelled
    \/ \E res \in Responses : LoopStep(res)

Spec == Init /\ [][Next]_vars


(* ============================== claims ================================ *)
\* a step that delivers an event to handleEvent
Delivered == pc = "idle" /\ nEvents' = nEvents + 1

\* a step that issues a transport request
IssuesCall == calls' # calls /\ calls' # <<>>

\* the event just delivered was dropped on the spot, leaving no trace
DroppedClean ==
    /\ pc' = "idle"
    /\ calls' = <<>>
    /\ emitted' = <<>>
    /\ results' = results
    /\ repCalls' = repCalls

\* lastRes is a parsed reputation record (query() returned it)
IsRepRecord(res) == res.code = "200" /\ res.content = "json" /\ res.body.has_rep

\* the findings of the latest step that are reputation findings
RepFindings(out) == {i \in 1 .. Len(out) : out[i].evtType # "CO_HOSTED_SITE"}

\* C1: errorState is sticky (once true it stays true), and every event
\* delivered while it is true is dropped: no transport request, no finding,
\* no change to the Dedup Cache.
C1_ErrorStateSticky ==
    [][/\ errorState => errorState'
       /\ (errorState /\ Delivered) => DroppedClean]_vars

\* C1 witness: after a 403 set errorState, a later event was dropped by it
C1_Witness == outcome = "error" /\ authFailed /\ errorState /\ nEvents = 2

\* C2: after a response with status 403 no further transport request is
\* issued in the run, neither for later events nor for the remaining targets
\* of the event being handled.
C2_NoCallAfter403 == [][authFailed => ~IssuesCall]_vars

\* C3: no identifier is the subject of more than one reputation request in
\* a run.
C3_ReputationAtMostOnce == \A id \in Identifiers : repCalls[id] <= 1

\* C4: an event whose identifier is already in the Dedup Cache when it is
\* delivered produces no transport request and no finding, whatever the
\* earlier query for it returned.
C4_CacheHitDropped ==
    [][(Delivered /\ event'.data \in results) =>
          /\ pc' = "idle"
          /\ calls' = <<>>
          /\ emitted' = <<>>
          /\ repCalls' = repCalls]_vars

\* C4 witness: an identifier already queried once is delivered again and is
\* skipped as already mapped
C4_Witness ==
    /\ outcome = "mapped"
    /\ repCalls[event.data] >= 1
    /\ ~errorState
    /\ calls = <<>>

\* C5: the name of an activity entry older than the age limit
\* (age_limit_days > 0) is not in the description of the finding emitted
\* for the record.
C5_OldActivityNotInDescription ==
    \A f \in RepFindings(lastOut) :
        \A a \in 1 .. Len(lastRes.body.activities) :
            TooOld(lastRes.body.activities[a].last_date)
                => \A n \in 1 .. Len(lastOut[f].names) :
                       lastOut[f].names[n] # lastRes.body.activities[a].name

\* the state right after the additional lookup of an accepted IP_ADDRESS event
AfterPassiveDns ==
    /\ event.eventType = "IP_ADDRESS"
    /\ outcome = "accepted"
    /\ Len(calls) = 1

\* C6: when the passive-DNS lookup of an IP_ADDRESS event returns a record
\* with one hostname entry dated within the age limit, exactly one
\* CO_HOSTED_SITE finding with that hostname has been emitted by the time
\* the reputation request of the event is made.
C6_OneCoHostedSite ==
    (/\ AfterPassiveDns
     /\ lastRes.code = "200" /\ lastRes.content = "json"
     /\ lastRes.body.has_pdns
     /\ Len(lastRes.body.passive_dns) = 1
     /\ lastRes.body.passive_dns[1].has_hostname
     /\ lastRes.body.passive_dns[1].last # Malformed
     /\ ~TooOld(lastRes.body.passive_dns[1].last))
    => emitted = <<CoHost("CO_HOSTED_SITE", lastRes.body.passive_dns[1].hostname)>>

\* C7: the first transport request of an accepted IP_ADDRESS event is of
\* kind passive_dns, for the event's identifier; events of every other type
\* issue no passive_dns request.
C7_PassiveDnsRequestFirst ==
    /\ (event.eventType = "IP_ADDRESS" /\ Len(calls) >= 1)
           => (calls[1].kind = "passive_dns" /\ calls[1].qry = event.data)
    /\ event.eventType # "IP_ADDRESS"
           => \A i \in 1 .. Len(calls) : calls[i].kind # "passive_dns"

\* C8: no reputation finding is emitted for a record none of whose
\* activities passes the age filter (no activities at all, or every one
\* older than the limit).
C8_NoFindingForEmptyFilteredSet ==
    RepFindings(lastOut) # {}
        => \E a \in 1 .. Len(lastRes.body.activities) :
               ~TooOld(lastRes.body.activities[a].last_date)

\* C9: a reputation record whose threat_score is below threat_score_min
\* yields no finding, whatever its activities, and the loop goes on to the
\* next query target of the event.
C9_BelowMinSuppressed ==
    [][(pc = "loop" /\ IssuesCall /\ IsRepRecord(lastRes')
        /\ lastRes'.body.threat_score < opts.threat_score_min)
       => /\ emitted' = emitted
          /\ ~raised'
          /\ idx' = idx + 1
          /\ pc' = (IF idx < Len(qrylist) THEN "loop" ELSE "idle")]_vars

\* C9 witness: the first member of a netblock has a record below the
\* minimum with a recent activity; nothing was emitted and the second
\* member is next
C9_Witness ==
    /\ pc = "loop" /\ idx = 2 /\ Len(calls) = 1
    /\ IsRepRecord(lastRes)
    /\ lastRes.body.threat_score < opts.threat_score_min
    /\ Len(lastRes.body.activities) >= 1
    /\ lastRes.body.activities[1].last_date = RecentTs
    /\ emitted = <<>>

\* C10: with an empty credential the first event is dropped and sets
\* errorState, and no transport request is made for it or any later event.
C10_EmptyCredential ==
    opts.apikey = ""
        => /\ nEvents >= 1 => errorState
           /\ pc = "idle"
           /\ calls = <<>>
           /\ emitted = <<>>
           /\ results = {}
           /\ \A id \in Identifiers : repCalls[id] = 0

\* C10 witness: the first event met the empty credential, the second was
\* dropped by errorState
C10_Witness ==
    /\ opts.apikey = ""
    /\ nEvents = 2
    /\ outcome = "error"
    /\ errorState


\* address x lies in the block "a/(32-p)": the two agree above the p host bits
InBlock(x, net) == x \div Pow2(net.p) = net.a \div Pow2(net.p)

\* C11: for an accepted netblock event the query targets are exactly the
\* addresses of the block, network and broadcast address included, in
\* ascending order, and all of them are in the Dedup Cache from before the
\* first reputation request of the event on.
C11_NetblockExpandedAndMarked ==
    (outcome = "accepted" /\ IsNetblock(event.eventType))
        => /\ Range(qrylist) = {Ip(x) : x \in {y \in 0 .. MaxAddr + 1 : InBlock(y, event.data)}}
           /\ \A i \in 1 .. Len(qrylist) - 1 : qrylist[i].a < qrylist[i + 1].a
           /\ Range(qrylist) \subseteq results

\* C11 witness: the block "1/31" has been expanded to 0 and 1, both are in
\* the cache and no request has been issued yet
C11_Witness ==
    /\ pc = "loop" /\ calls = <<>>
    /\ event = [eventType |-> "NETBLOCK_MEMBER", data |-> Net(1, 1)]
    /\ qrylist = <<Ip(0), Ip(1)>>
    /\ {Ip(0), Ip(1)} \subseteq results

\* C12: once checkForStop() has answered true, no reputation request is
\* issued for that target or a later one of the event, no further finding
\* is emitted for the event, and errorState is as it was.
C12_CancellationHalts ==
    [][/\ (pc = "loop" /\ stopped' /\ ~stopped)
              => /\ pc' = "idle"
                 /\ calls' = calls
                 /\ emitted' = emitted
                 /\ repCalls' = repCalls
                 /\ errorState' = errorState
       /\ (stopped /\ ~Delivered)
              => (calls' = calls /\ emitted' = emitted /\ errorState' = errorState)]_vars

\* C12 witness: a two-address block cancelled before its second target, with
\* errorState still false
C12_Witness ==
    /\ stopped /\ pc = "idle"
    /\ Len(qrylist) = 2 /\ idx = 2 /\ Len(calls) = 1
    /\ ~errorState

\* a response query() reports as not found or as unparsable
NotFoundOrUnparsable(res) ==
    /\ res.code # "403"
    /\ res.content \in {"none", "garbage"} \/ res.code = "404"

\* C13: a not-found response (empty body or 404) or an unparsable body
\* yields no finding, leaves errorState as it was, and the handler goes on:
\* from the additional lookup to the loop, in the loop to the next target.
C13_NotFoundIsPerQuery ==
    [][(IssuesCall /\ NotFoundOrUnparsable(lastRes'))
          => /\ emitted' = emitted
             /\ errorState' = errorState
             /\ ~raised'
             /\ pc = "pdns" => pc' = "loop"
             /\ pc = "loop" => /\ idx' = idx + 1
                               /\ pc' = (IF idx < Len(qrylist) THEN "loop" ELSE "idle")]_vars

\* C13 witness: the first target of a two-address block got an unparsable
\* body; nothing was emitted, errorState is false, the second target is next
C13_Witness ==
    /\ pc = "loop" /\ idx = 2 /\ Len(qrylist) = 2
    /\ lastRes.content = "garbage"
    /\ emitted = <<>>
    /\ ~errorState


\* res is a parsed reputation record with a threat score at or above the minimum
Qualifies(res) == IsRepRecord(res) /\ res.body.threat_score >= opts.threat_score_min

\* every activity of the record has a timestamp that parses
WellFormed(res) ==
    \A a \in 1 .. Len(res.body.activities) : res.body.activities[a].last_date # Malformed

\* lastRes and lastOut belong to an iteration of the target loop
AfterLoopStep == idx >= 2

\* C14: an activity entry with a malformed or missing timestamp does not
\* make the handler raise or abort: after the record is handled the loop is
\* at the next target, or the handling has ended normally.  (Passive-DNS
\* entries are parsed the same way, at line 149.)
C14_MalformedStampDoesNotRaise ==
    (/\ AfterLoopStep
     /\ IsRepRecord(lastRes)
     /\ \E a \in 1 .. Len(lastRes.body.activities) :
            lastRes.body.activities[a].last_date = Malformed)
    => /\ ~raised
       /\ (idx <= Len(qrylist) /\ ~stopped) => pc = "loop"

\* the mapping table of the roles it lists
TableRoles ==
    {"IP_ADDRESS", "NETBLOCK_OWNER", "NETBLOCK_MEMBER", "AFFILIATE_IPADDR",
     "INTERNET_NAME", "AFFILIATE_INTERNET_NAME", "CO_HOSTED_SITE"}
Category(role) ==
    CASE role \in {"IP_ADDRESS", "NETBLOCK_OWNER", "NETBLOCK_MEMBER"} -> "MALICIOUS_IPADDR"
      [] role = "AFFILIATE_IPADDR" -> "MALICIOUS_AFFILIATE_IPADDR"
      [] role = "INTERNET_NAME" -> "MALICIOUS_INTERNET_NAME"
      [] role = "AFFILIATE_INTERNET_NAME" -> "MALICIOUS_AFFILIATE_INTERNET_NAME"
      [] role = "CO_HOSTED_SITE" -> "MALICIOUS_COHOST"

\* C15: for the roles of the mapping table every reputation finding has the
\* category the table gives for the event's role, and a query target whose
\* record qualifies (threat score at or above the minimum) gets exactly one
\* finding.
C15_CategoryByRole ==
    event.eventType \in TableRoles
        => /\ \A i \in RepFindings(emitted) :
                  emitted[i].evtType = Category(event.eventType)
           /\ (AfterLoopStep /\ Qualifies(lastRes))
                  => /\ Len(lastOut) = 1
                     /\ lastOut[1].evtType = Category(event.eventType)

\* C16: with age_limit_days = 0 the description of an emitted reputation
\* finding holds the name of every activity of the record, whatever the
\* activity's date.
C16_UnlimitedAgeKeepsAllNames ==
    opts.age_limit_days = 0
        => \A f \in RepFindings(lastOut) :
               \A a \in 1 .. Len(lastRes.body.activities) :
                   \E n \in 1 .. Len(lastOut[f].names) :
                       lastOut[f].names[n] = lastRes.body.activities[a].name

\* C16 witness: limit 0, a record whose activity is older than the default
\* limit, and the finding emitted for it carries the activity's name
C16_Witness ==
    /\ opts.age_limit_days = 0
    /\ AfterLoopStep
    /\ Qualifies(lastRes)
    /\ Len(lastRes.body.activities) >= 1
    /\ lastRes.body.activities[1].last_date = OldTs
    /\ Len(lastOut) = 1
    /\ lastOut[1].names = <<lastRes.body.activities[1].name>>

\* the reputation lookup of an IP_ADDRESS event returned a record at or
\* above the minimum with one activity dated within the age limit
IpRecordWithRecentActivity ==
    /\ event.eventType = "IP_ADDRESS"
    /\ AfterLoopStep
    /\ Qualifies(lastRes)
    /\ Len(lastRes.body.activities) = 1
    /\ lastRes.body.activities[1].last_date # Malformed
    /\ ~TooOld(lastRes.body.activities[1].last_date)

\* C17: in that case exactly one MALICIOUS_IPADDR finding is emitted for the
\* event, and its description holds the threat score and the activity's name.
C17_OneMaliciousIpaddr ==
    IpRecordWithRecentActivity
        => /\ Cardinality({i \in 1 .. Len(emitted) :
                              emitted[i].evtType = "MALICIOUS_IPADDR"}) = 1
           /\ Len(lastOut) = 1
           /\ lastOut[1].evtType = "MALICIOUS_IPADDR"
           /\ lastOut[1].score = lastRes.body.threat_score
           /\ lastOut[1].names = <<lastRes.body.activities[1].name>>

\* C17 witness: the case itself, under the default age limit, with the
\* finding as the only one of the event
C17_Witness ==
    /\ IpRecordWithRecentActivity
    /\ opts.age_limit_days = DefaultAgeLimitDays
    /\ pc = "idle"
    /\ Len(emitted) = 1
    /\ emitted[1].evtType = "MALICIOUS_IPADDR"
    /\ emitted[1].score = DefaultThreatScoreMin

\* C18: no emitted finding has a category that is unassigned or outside
\* producedEvents, and for every watched event type a record that qualifies
\* (with timestamps that parse) gets a finding of such a category.
C18_CategoryAssignedAndProduced ==
    /\ \A i \in 1 .. Len(emitted) : emitted[i].evtType \in producedEvents
    /\ (/\ event.eventType \in watchedEvents
        /\ AfterLoopStep
        /\ Qualifies(lastRes)
        /\ WellFormed(lastRes))
       => /\ Len(lastOut) = 1
          /\ lastOut[1].evtType \in producedEvents

\* C19: an event dropped because of errorState or an empty credential
\* leaves the Dedup Cache as it was, and no step ever removes an identifier
\* from the cache.
C19_CacheOnlyGrows ==
    [][/\ results \subseteq results'
       /\ (Delivered /\ (errorState \/ opts.apikey = "")) => results' = results]_vars

\* C19 witness: after a 403 an event with a new identifier was dropped by
\* errorState; the cache holds the earlier identifiers and not the new one
C19_Witness ==
    /\ outcome = "error"
    /\ authFailed
    /\ results # {}
    /\ event.data \notin results

\* the number of addresses in a block
BlockSize(net) == Cardinality({y \in 0 .. MaxAddr + 1 : InBlock(y, net)})

\* C20: an accepted event that was not cancelled has issued, when its
\* handling ends, 2 transport requests if it is an IP_ADDRESS event, one per
\* address of the block if it is a netblock event, and 1 otherwise (stated
\* for handlings whose last response does not carry the misspelt key).
C20_CallCountFixedByRole ==
    (pc = "idle" /\ outcome = "accepted" /\ ~stopped /\ ~lastRes.body.has_passve)
        => Len(calls) = (IF event.eventType = "IP_ADDRESS" THEN 2
                         ELSE IF IsNetblock(event.eventType) THEN BlockSize(event.data)
                         ELSE 1)

====
